---- MODULE Spec2Model ----
(***************************************************************************)
(* A model of scrape.py (sarojrana/scrape-nepse): main() drives one        *)
(* browser session through the company directory page and then one query  *)
(* page per company, writing one CSV file per company that has data.       *)
(*                                                                         *)
(* Text that the program edits character by character (company symbols,    *)
(* cell texts) is a sequence of one-character strings.  Text the program   *)
(* only compares or passes on (the probed cell's text, option values,      *)
(* dates) is a string.  A file is the sequence of its lines, each line the  *)
(* sequence of its fields (CSV quoting is pandas' and is not modelled).    *)
(***************************************************************************)
EXTENDS Integers, Sequences, FiniteSets, TLC

VARIABLES
    pc,         \* position in main(): "main", "fetch_list", "loop", "branch", "done", "aborted"
    driver,     \* the browser session: "none", "open", "closed"
    page,       \* what the session holds after the last driver.get: [status, doc]
    companies,  \* main's `companies`
    idx,        \* 1-based position of the for loop in `companies`; 0 before the list exists
    df,         \* main's `df`: the value of the last fetch_company_trading_data call
    files,      \* the data/ directory: file path -> lines
    log,        \* the calls made so far on the outside world, in order
    error       \* the exception that ended the run, "none" while there is none

vars == <<pc, driver, page, companies, idx, df, files, log, error>>

(***************************************************************************)
(* Program constants.                                                      *)
(***************************************************************************)
LIMIT == 100000
SLEEP_SECONDS == 15
START_DATE == "2000-01-01"
END_DATE == "2021-12-31"
NO_DATA_TEXT == "No Data Available!"
DIRECTORY_URL == <<"http://www.nepalstock.com/stockWisePrices">>

(***************************************************************************)
(* Bounds of the model.                                                    *)
(***************************************************************************)
MaxOptions == 4     \* <option> elements in the directory's select control
MaxRows == 5        \* <tr> elements in a query page's table

(***************************************************************************)
(* Python values.                                                          *)
(***************************************************************************)
None == [kind |-> "None"]
Str(t) == [kind |-> "str", text |-> t]

\* s[from:] and s[1:-1] of a Python list
SliceFrom(s, from) == SubSeq(s, from + 1, Len(s))
SliceInner(s) == SubSeq(s, 2, Len(s) - 1)

RECURSIVE Replace(_, _, _)
\* str.replace(old, new) for a one-character `old`
Replace(s, old, new) ==
    IF s = <<>> THEN <<>>
    ELSE (IF Head(s) = old THEN new ELSE <<Head(s)>>) \o Replace(Tail(s), old, new)

RECURSIVE SeqMax(_)
SeqMax(s) == IF s = <<>> THEN 0
             ELSE LET m == SeqMax(Tail(s)) IN IF Head(s) > m THEN Head(s) ELSE m

RECURSIVE SelectTag(_, _)
\* row.find_all([tag]): the row's cells of that tag, in document order
SelectTag(cells, tag) ==
    IF cells = <<>> THEN <<>>
    ELSE (IF Head(cells).tag = tag THEN <<Head(cells)>> ELSE <<>>)
         \o SelectTag(Tail(cells), tag)

(***************************************************************************)
(* Documents the site can serve.                                           *)
(***************************************************************************)
BlankDoc == [select |-> FALSE, options |-> <<>>,
             probe |-> FALSE, probeText |-> "",
             table |-> FALSE, rows |-> <<>>]

DirectoryDoc(hasSelect, options) ==
    [BlankDoc EXCEPT !.select = hasSelect, !.options = options]

QueryDoc(hasProbe, probeText, hasTable, rows) ==
    [BlankDoc EXCEPT !.probe = hasProbe, !.probeText = probeText,
                     !.table = hasTable, !.rows = rows]

Option(string, value) == [string |-> string, value |-> value]
Cell(tag, text) == [tag |-> tag, text |-> text]

RECURSIVE SeqsUpTo(_, _)
\* every sequence over S of length at most n
SeqsUpTo(S, n) ==
    IF n = 0 THEN {<<>>}
    ELSE LET shorter == SeqsUpTo(S, n - 1)
         IN shorter \cup {Append(s, x) : s \in {t \in shorter : Len(t) = n - 1}, x \in S}


AHPC == <<"A", "H", "P", "C">>

\* <option> elements: one plain symbol and two that differ only by "/" versus "-"
OptionSet ==
    { Option(AHPC, "360"),
      Option(<<"A", "/", "B">>, "1"),
      Option(<<"A", "-", "B">>, "2") }

\* <tr> elements: a row of <th> cells, rows of <td> cells whose text holds
\* carriage returns and line feeds, and a one-cell row
RowSet ==
    { <<Cell("th", <<"D">>), Cell("th", <<"P">>)>>,
      <<Cell("td", <<"D">>), Cell("td", <<"P", "\r", "\n">>)>>,
      <<Cell("td", <<"1">>), Cell("td", <<"\n", "9", "\r">>)>>,
      <<Cell("td", <<"\r", "\n">>)>> }

LabelRow == <<Cell("td", <<"D">>), Cell("td", <<"P">>)>>
DataRow(d) == <<Cell("td", <<d>>), Cell("td", <<"9", "\n">>)>>
FooterRow == <<Cell("td", <<"<", ">">>)>>

\* What one driver.get can come to: the navigation times out, the marker
\* element never appears, or the page renders as one of `docs`.
Responses(docs) ==
    { [status |-> "nav_timeout", doc |-> BlankDoc],
      [status |-> "marker_timeout", doc |-> BlankDoc] }
    \cup { [status |-> "ok", doc |-> d] : d \in docs }

\* The directory pages and query pages of a run over several companies.
DirectoryDocs ==
    { DirectoryDoc(FALSE, <<>>) }
    \cup { DirectoryDoc(TRUE, o) : o \in SeqsUpTo(OptionSet, MaxOptions) }

QueryDocs ==
    { QueryDoc(FALSE, "", FALSE, <<>>),
      QueryDoc(TRUE, NO_DATA_TEXT, TRUE, <<LabelRow, LabelRow, FooterRow>>),
      QueryDoc(TRUE, "1", FALSE, <<>>),
      QueryDoc(TRUE, "1", TRUE, <<LabelRow, FooterRow>>),
      QueryDoc(TRUE, "1", TRUE, <<LabelRow, LabelRow, FooterRow>>),
      QueryDoc(TRUE, "1", TRUE,
               <<LabelRow, LabelRow, DataRow("1"), DataRow("2"), FooterRow>>) }

\* The pages of a run over one company, with every table of at most MaxRows rows.
OneCompanyDirectoryDocs ==
    { DirectoryDoc(FALSE, <<>>),
      DirectoryDoc(TRUE, <<Option(<<>>, ""), Option(AHPC, "360")>>) }

AllQueryDocs ==
    { QueryDoc(p[1], p[2], t[1], t[2]) :
        p \in { <<FALSE, "">>, <<TRUE, NO_DATA_TEXT>>,
                <<TRUE, "No Data Available">>, <<TRUE, "1">> },
        t \in { <<FALSE, <<>>>> } \cup { <<TRUE, r>> : r \in SeqsUpTo(RowSet, MaxRows) } }

(***************************************************************************)
(* The functions of scrape.py.  Each yields [raised, value]: the exception *)
(* it raises ("none" when it returns) and the value it returns.            *)
(***************************************************************************)
Return(value) == [raised |-> "none", value |-> value]
Raise(exception) == [raised |-> exception, value |-> None]

\* driver.get(url), then WebDriverWait(driver, 20).until(presence of #stockwiseprice)
fetch_web_page(resp) ==
    IF resp.status = "ok" THEN Return(resp.doc) ELSE Raise("TimeoutException")

CompanyOptions_KeepPlaceholder(options) == options
\* company_list.find_all("option")[1:]
CompanyOptions(options) == SliceFrom(options, 1)

fetch_company_list_EmptyWhenNoSelect(resp) ==
    LET fetched == fetch_web_page(resp)
        options == CompanyOptions(resp.doc.options)
    IN  IF fetched.raised # "none" THEN fetched
        ELSE Return([i \in DOMAIN options |->
                        [symbol |-> options[i].string, value |-> options[i].value]])

fetch_company_list(resp) ==
    LET fetched == fetch_web_page(resp)
        options == CompanyOptions(resp.doc.options)
    IN  IF fetched.raised # "none" THEN fetched
        ELSE IF ~resp.doc.select THEN Raise("AttributeError")
        ELSE Return([i \in DOMAIN options |->
                        [symbol |-> options[i].string, value |-> options[i].value]])

QueryUrl(company, start_date, end_date, limit) ==
    <<"http://www.nepalstock.com/main/stockwiseprices/index/1/?startDate=", start_date,
      "&endDate=", end_date, "&stock-symbol=", company.value,
      "&_limit=", ToString(limit)>>

IsNoData_Prefix(trading_data) == trading_data \in {NO_DATA_TEXT, "No Data Available"}
\* trading_data == "No Data Available!"
IsNoData(trading_data) == trading_data = NO_DATA_TEXT

TableRows_KeepFooter(rows) == SliceFrom(rows, 1)
\* table.find_all("tr")[1:-1]
TableRows(rows) == SliceInner(rows)

\* cell.text.replace('\r', '').replace('\n', '')
CellText(cell) == Replace(Replace(cell.text, "\r", <<>>), "\n", <<>>)

\* [... for cell in row.find_all(["td"])]
RowTexts(row) ==
    LET cells == SelectTag(row, "td") IN [j \in DOMAIN cells |-> CellText(cells[j])]

TableData(rows) ==
    LET kept == TableRows(rows) IN [i \in DOMAIN kept |-> RowTexts(kept[i])]

\* pd.DataFrame(list of lists): short rows are filled with None to the widest row
DataFrame(data) ==
    LET width == SeqMax([i \in DOMAIN data |-> Len(data[i])])
    IN  [kind |-> "DataFrame",
         columns |-> [j \in 1..width |-> j - 1],
         rows |-> [i \in DOMAIN data |->
                     [j \in 1..width |->
                        IF j <= Len(data[i]) THEN Str(data[i][j]) ELSE None]]]

fetch_company_trading_data(resp) ==
    LET fetched == fetch_web_page(resp) IN
    IF fetched.raised # "none" THEN fetched
    ELSE IF ~resp.doc.probe THEN Raise("NoSuchElementException")
    ELSE IF IsNoData(resp.doc.probeText) THEN Return(None)
    ELSE IF ~resp.doc.table THEN Raise("AttributeError")
    ELSE Return(DataFrame(TableData(resp.doc.rows)))

FileName(company, start_date, end_date) ==
    Replace(company.symbol, "/", <<"-">>) \o <<"_", start_date, "_", end_date, ".csv">>

FilePath(company, start_date, end_date) ==
    <<"data/">> \o FileName(company, start_date, end_date)

DataRows_KeepHeader(rows) == rows
\* df[1:]
DataRows(rows) == SliceFrom(rows, 1)

\* DataFrame.to_csv(index=False): the column labels, then the rows; None is written empty
CsvField(v) == IF v.kind = "None" THEN <<>> ELSE v.text
CsvLine(values) == [j \in DOMAIN values |-> CsvField(values[j])]
ToCsv(frame) == <<CsvLine(frame.columns)>> \o [i \in DOMAIN frame.rows |-> CsvLine(frame.rows[i])]

\* the value is the file written, [path, lines]
save_company_trading_data(frame, company, start_date, end_date, writable) ==
    IF frame.rows = <<>> THEN Raise("IndexError")
    ELSE LET header == frame.rows[1]
             labelled == [frame EXCEPT !.rows = DataRows(frame.rows), !.columns = header]
         IN  IF ~writable THEN Raise("OSError")
             ELSE Return([path |-> FilePath(company, start_date, end_date),
                          lines |-> ToCsv(labelled)])

(***************************************************************************)
(* main()                                                                  *)
(***************************************************************************)
Event(op, arg) == [op |-> op, arg |-> arg]

Init ==
    /\ pc = "main"
    /\ driver = "none"
    /\ page = [status |-> "none", doc |-> BlankDoc]
    /\ companies = <<>>
    /\ idx = 0
    /\ df = None
    /\ files = <<>>
    /\ log = <<>>
    /\ error = "none"

\* an exception nothing catches ends the process where it is raised
Abort(exception) ==
    /\ pc' = "aborted"
    /\ error' = exception

\* driver = initialize_driver()
InitializeDriver ==
    /\ pc = "main"
    /\ \E started \in BOOLEAN :
         IF started
         THEN /\ driver' = "open"
              /\ pc' = "fetch_list"
              /\ UNCHANGED error
         ELSE /\ Abort("WebDriverException")
              /\ UNCHANGED driver
    /\ UNCHANGED <<page, companies, idx, df, files, log>>

\* companies = fetch_company_list(driver=driver)
FetchCompanyList(docs) ==
    /\ pc = "fetch_list"
    /\ \E resp \in Responses(docs) :
         LET r == fetch_company_list(resp) IN
         /\ page' = resp
         /\ log' = Append(log, Event("get", DIRECTORY_URL))
         /\ IF r.raised # "none"
            THEN /\ Abort(r.raised)
                 /\ UNCHANGED <<companies, idx>>
            ELSE /\ companies' = r.value
                 /\ idx' = 1
                 /\ pc' = "loop"
                 /\ UNCHANGED error
    /\ UNCHANGED <<driver, df, files>>

\* for company in companies: df = fetch_company_trading_data(...)
FetchCompanyTradingData(docs) ==
    /\ pc = "loop"
    /\ idx <= Len(companies)
    /\ \E resp \in Responses(docs) :
         LET r == fetch_company_trading_data(resp) IN
         /\ page' = resp
         /\ log' = Append(log, Event("get", QueryUrl(companies[idx], START_DATE, END_DATE, LIMIT)))
         /\ IF r.raised # "none"
            THEN /\ Abort(r.raised)
                 /\ UNCHANGED df
            ELSE /\ df' = r.value
                 /\ pc' = "branch"
                 /\ UNCHANGED error
    /\ UNCHANGED <<driver, companies, idx, files>>

NextIndex_SkipOne(i) == i + 2
\* the for loop moves to the next company
NextIndex(i) == i + 1

\* time.sleep(15), after the save only
NoSleepAfterSave == <<>>
SleepAfterSave == <<Event("sleep", SLEEP_SECONDS)>>

\* if df is None: print("Skipping the process for ...")
SkipCompany ==
    /\ pc = "branch"
    /\ df.kind = "None"
    /\ log' = Append(log, Event("skip", companies[idx].symbol))
    /\ idx' = NextIndex(idx)
    /\ pc' = "loop"
    /\ UNCHANGED <<driver, page, companies, df, files, error>>

\* else: save_company_trading_data(...); time.sleep(15)
SaveCompany ==
    /\ pc = "branch"
    /\ df.kind # "None"
    /\ \E writable \in BOOLEAN :
         LET r == save_company_trading_data(df, companies[idx], START_DATE, END_DATE, writable) IN
         IF r.raised # "none"
         THEN /\ Abort(r.raised)
              /\ UNCHANGED <<files, log, idx>>
         ELSE /\ files' = [p \in DOMAIN files \cup {r.value.path} |->
                             IF p = r.value.path THEN r.value.lines ELSE files[p]]
              /\ log' = Append(log, Event("to_csv", r.value.path)) \o SleepAfterSave
              /\ idx' = NextIndex(idx)
              /\ pc' = "loop"
              /\ UNCHANGED error
    /\ UNCHANGED <<driver, page, companies, df>>

\* after the loop: driver.close(); sys.exit()
Finish ==
    /\ pc = "loop"
    /\ idx > Len(companies)
    /\ driver' = "closed"
    /\ log' = Append(log, Event("close", 0))
    /\ pc' = "done"
    /\ UNCHANGED <<page, companies, idx, df, files, error>>

\* a run over the companies of a directory of at most MaxOptions options
Next ==
    \/ InitializeDriver
    \/ FetchCompanyList(DirectoryDocs)
    \/ FetchCompanyTradingData(QueryDocs)
    \/ SkipCompany
    \/ SaveCompany
    \/ Finish

Spec == Init /\ [][Next]_vars

\* a run over one company, whose query page holds any table of at most MaxRows rows
NextOneCompany ==
    \/ InitializeDriver
    \/ FetchCompanyList(OneCompanyDirectoryDocs)
    \/ FetchCompanyTradingData(AllQueryDocs)
    \/ SkipCompany
    \/ SaveCompany
    \/ Finish

SpecOneCompany == Init /\ [][NextOneCompany]_vars

(***************************************************************************)
(* Properties.                                                             *)
(***************************************************************************)
EventIs(e, op, arg) == e.op = op /\ e.arg = arg

\* the for loop has just saved company idx - 1: `df` and `page` are still that company's
JustSaved == pc = "loop" /\ idx >= 2 /\ df.kind = "DataFrame"

\* the file the last save wrote
SavedFile == files[FilePath(companies[idx - 1], START_DATE, END_DATE)]

\* C1: a failure other than the NoData sentinel while one company is processed
\* does not abort the run: the run is never aborted once the loop over the
\* companies has begun.
C1_CompanyFailureDoesNotAbort == pc = "aborted" => idx = 0

\* C2: the 15-unit pause is made exactly once after each save, right after the
\* file write and before the next fetch (or the end of the run), and never
\* after a skip: what follows a skip is the next fetch (or the end of the run).
C2_PauseAfterSaveOnly ==
    \A k \in 1..Len(log) :
        /\ log[k].op = "to_csv" =>
              k < Len(log) /\ EventIs(log[k + 1], "sleep", SLEEP_SECONDS)
        /\ log[k].op = "sleep" =>
              /\ k > 1 /\ log[k - 1].op = "to_csv"
              /\ k < Len(log) => log[k + 1].op \in {"get", "close"}
        /\ log[k].op = "skip" =>
              (k < Len(log) => log[k + 1].op \in {"get", "close"})

C2_Witness ==
    \E j, k \in 1..Len(log) :
        /\ k + 2 <= Len(log) /\ j + 1 <= Len(log)
        /\ log[k].op = "to_csv" /\ log[k + 1].op = "sleep" /\ log[k + 2].op = "get"
        /\ log[j].op = "skip" /\ log[j + 1].op = "get"

\* C3: on a rendered query page that has the probed cell,
\* fetch_company_trading_data returns None (the NoData sentinel) if and only if
\* the cell's text is exactly "No Data Available!"; and processing a company
\* for which it returned None changes no file.
C3_NoDataIffProbeText ==
    [][ /\ (pc = "loop" /\ pc' # "loop" /\ pc' # "done"
              /\ page'.status = "ok" /\ page'.doc.probe) =>
                 /\ (pc' = "branch" /\ df'.kind = "None") <=> (page'.doc.probeText = NO_DATA_TEXT)
                 /\ files' = files
        /\ (pc = "branch" /\ df.kind = "None") =>
                 /\ files' = files
                 /\ pc' = "loop" /\ idx' = idx + 1
                 /\ log' = Append(log, Event("skip", companies[idx].symbol)) ]_vars

C3_Witness ==
    /\ pc = "loop" /\ idx = 2 /\ df.kind = "None"
    /\ page.doc.probe /\ page.doc.probeText = NO_DATA_TEXT
    /\ files = <<>>
    /\ log[Len(log)].op = "skip"

\* the texts of all the cells of a row, carriage returns and line feeds removed
RowContent(row) == [j \in DOMAIN row |-> CellText(row[j])]

\* C4 as stated: for a table of 1 header row, k data rows and 1 footer row, the
\* written file is a header row equal to the table's first row, then exactly
\* the k data rows in table order.
C4_FileIsHeaderAndAllDataRows ==
    (JustSaved /\ page.doc.table /\ Len(page.doc.rows) >= 2) =>
        LET rows == page.doc.rows
            k == Len(rows) - 2
        IN  /\ Len(SavedFile) = 1 + k
            /\ SavedFile[1] = RowContent(rows[1])
            /\ \A i \in 1..k : SavedFile[1 + i] = RowContent(rows[1 + i])

\* C4 as amended: for a table of 1 header row, k >= 1 data rows and 1 footer
\* row, the written file holds exactly k lines, the table's rows 2..k+1 in
\* table order: its header line is the table's second row and its k-1 data
\* lines are the rows 3..k+1.  A line holds the texts of the row's <td> cells,
\* carriage returns and line feeds removed, then empty fields up to the width
\* of the widest of these rows.
C4_FileIsRowsTwoToLastButOne ==
    (JustSaved /\ page.doc.table /\ Len(page.doc.rows) >= 3) =>
        LET rows == page.doc.rows
            k == Len(rows) - 2
        IN  /\ Len(SavedFile) = k
            /\ \A i \in 1..k :
                 LET tds == SelectTag(rows[1 + i], "td") IN
                 /\ Len(SavedFile[i]) >= Len(tds)
                 /\ \A j \in 1..Len(tds) : SavedFile[i][j] = CellText(tds[j])
                 /\ \A j \in (Len(tds) + 1)..Len(SavedFile[i]) : SavedFile[i][j] = <<>>
                 /\ \A h \in 1..k : Len(SavedFile[i]) = Len(SavedFile[h])
            /\ \E i \in 1..k : Len(SavedFile[i]) = Len(SelectTag(rows[1 + i], "td"))

C4_Witness ==
    /\ JustSaved /\ page.doc.table /\ Len(page.doc.rows) = 5
    /\ Len(SavedFile) = 3
    /\ SavedFile[1] = <<<<"D">>, <<"P">>>>
    /\ SavedFile[2] = <<<<"1">>, <<"9">>>>
    /\ page.doc.rows[1] # page.doc.rows[2]

\* C5: for a table of N >= 3 rows on which the sentinel is not detected, the
\* extraction yields exactly N-2 records, the table's rows 2..N-1 in table
\* order: record i holds the texts of the <td> cells of row i+1 (then None up
\* to the width of the frame).
C5_ExtractionDropsFirstAndLastRow ==
    (pc = "branch" /\ df.kind = "DataFrame" /\ Len(page.doc.rows) >= 3) =>
        LET rows == page.doc.rows
            N == Len(rows)
        IN  /\ Len(df.rows) = N - 2
            /\ \A i \in 1..(N - 2) :
                 LET tds == SelectTag(rows[i + 1], "td") IN
                 /\ Len(df.rows[i]) >= Len(tds)
                 /\ \A j \in 1..Len(tds) :
                      df.rows[i][j].kind = "str" /\ df.rows[i][j].text = CellText(tds[j])
                 /\ \A j \in (Len(tds) + 1)..Len(df.rows[i]) : df.rows[i][j].kind = "None"

C5_Witness ==
    /\ pc = "branch" /\ df.kind = "DataFrame"
    /\ Len(page.doc.rows) = 5 /\ Len(df.rows) = 3
    /\ page.doc.rows[1] # page.doc.rows[2]
    /\ page.doc.rows[4] # page.doc.rows[5]
    /\ page.doc.rows[2] # page.doc.rows[3]

\* C6: for a select control with options o_1..o_n (n >= 1), fetch_company_list
\* returns n-1 companies, the i-th one {symbol: text of o_(i+1), value: value
\* of o_(i+1)}: the first option is left out, the order is kept, and options
\* with the same symbol are all kept.
C6_CompaniesAreOptionsAfterFirst ==
    (pc = "loop" /\ idx = 1 /\ page.doc.select /\ Len(page.doc.options) >= 1) =>
        LET o == page.doc.options IN
        /\ Len(companies) = Len(o) - 1
        /\ \A i \in 1..(Len(o) - 1) :
             /\ companies[i].symbol = o[i + 1].string
             /\ companies[i].value = o[i + 1].value

C6_Witness ==
    /\ pc = "loop" /\ idx = 1 /\ page.doc.select
    /\ Len(page.doc.options) = 3 /\ Len(companies) = 2
    /\ page.doc.options[1] # page.doc.options[2]
    /\ companies[1].symbol = companies[2].symbol

\* C7: any two saves of one run write to two different file paths.
C7_SavesWriteDistinctPaths ==
    \A j, k \in 1..Len(log) :
        (j # k /\ log[j].op = "to_csv" /\ log[k].op = "to_csv") => log[j].arg # log[k].arg

\* C8: if the directory page fails to load, or has no select control, the
\* directory step raises and the run ends there: no company list, no query
\* request and no file.
C8_DirectoryFailureIsFatal ==
    /\ (Len(log) = 1 /\ (page.status # "ok" \/ ~page.doc.select)) =>
          /\ pc = "aborted"
          /\ error = (IF page.status # "ok" THEN "TimeoutException" ELSE "AttributeError")
    /\ (pc = "aborted" /\ idx = 0) =>
          /\ companies = <<>>
          /\ files = <<>>
          /\ \A k \in 1..Len(log) : EventIs(log[k], "get", DIRECTORY_URL)
          /\ Len(log) <= 1

C8_Witness ==
    /\ pc = "aborted" /\ error = "AttributeError"
    /\ page.status = "ok" /\ ~page.doc.select
    /\ Len(log) = 1

RECURSIVE ProcessedInOrder(_, _)
\* `l` is what the run does from company i on: one fetch of i's query page,
\* then a skip or a save of i and a pause, then the same from i+1 on; after the
\* last company, the session is closed.
ProcessedInOrder(l, i) ==
    IF i > Len(companies) THEN Len(l) = 1 /\ l[1].op = "close"
    ELSE /\ Len(l) >= 2
         /\ EventIs(l[1], "get", QueryUrl(companies[i], START_DATE, END_DATE, LIMIT))
         /\ \/ /\ EventIs(l[2], "skip", companies[i].symbol)
               /\ ProcessedInOrder(SubSeq(l, 3, Len(l)), i + 1)
            \/ /\ Len(l) >= 3
               /\ EventIs(l[2], "to_csv", FilePath(companies[i], START_DATE, END_DATE))
               /\ l[3].op = "sleep"
               /\ ProcessedInOrder(SubSeq(l, 4, Len(l)), i + 1)

\* C9: in a run that reaches Done, after the directory request, each company
\* of the list is processed exactly once and in list order: one request of its
\* query page, then its skip or its file write, before the next company's
\* request.
C9_EachCompanyOnceInOrder ==
    pc = "done" =>
        /\ Len(log) >= 1
        /\ EventIs(log[1], "get", DIRECTORY_URL)
        /\ ProcessedInOrder(Tail(log), 1)

C9_Witness ==
    /\ pc = "done" /\ Len(companies) = 2
    /\ \E j, k \in 1..Len(log) : j < k /\ log[j].op = "skip" /\ log[k].op = "to_csv"

\* C10: once started, the session is closed in every state in which the run
\* has ended, by completion or by an unhandled failure, and it is closed only
\* when the run is done.
C10_SessionClosedAtEveryEnd ==
    /\ (pc \in {"done", "aborted"} /\ driver # "none") => driver = "closed"
    /\ driver = "closed" => pc = "done"

====
